---- MODULE Spec2Model ----
(***************************************************************************)
(* Notes API (app/main.py) over its relational store (app/models.py),     *)
(* with the seed script (app/seed.py) and the notes router                 *)
(* (app/routers/notes.py).                                                 *)
(*                                                                         *)
(* Text is a sequence of characters, each a one-character string; a        *)
(* character that has no escape in a string is written by its code point,  *)
(* "U+00A0".  An Optional value is a sequence of length at most one: None  *)
(* is << >>, a value v is << v >>.  A field of a JSON payload is again     *)
(* such a sequence: << >> when the key is absent, << x >> when the key is  *)
(* present with the Optional x.                                            *)
(*                                                                         *)
(* The handlers are sync functions that run in worker threads, each with   *)
(* its own session (get_db).  A request is served in steps, one per        *)
(* statement the session sends to the store (READ COMMITTED: every         *)
(* statement sees what is committed when it runs).  db.commit() after      *)
(* db.add() is two statements: the INSERT, which draws the id from the     *)
(* sequence and keeps the row to its transaction, and the COMMIT, which    *)
(* shows the row to the others.  An UPDATE or DELETE holds the lock of its *)
(* row until its COMMIT and is one step with it.  The steps of the         *)
(* requests in flight interleave.  request[w] holds the request worker w   *)
(* serves, the position of its handler (pc) and the handler's locals,      *)
(* response[w] the answer once the handler is done, until the session is   *)
(* closed.  now() is the start of the transaction: a handler keeps it in   *)
(* the local at.  The store's clock is the variable now, which the         *)
(* environment advances.                                                   *)
(*                                                                         *)
(* app/routers/notes.py with app/schemas.py is a second set of handlers    *)
(* over the same tables (POST and PATCH /notes); app/main.py does not      *)
(* mount it, an application that includes the router serves it.            *)
(***************************************************************************)
EXTENDS Integers, Sequences, FiniteSets, TLC

VARIABLES users, notes, user_id_seq, note_id_seq, now, request, response

vars == <<users, notes, user_id_seq, note_id_seq, now, request, response>>

store == <<users, notes, user_id_seq, note_id_seq>>

\* ---------------------------------------------------------------- bounds

MaxWorkers == 2
MaxNotes == 2
MaxUserIds == 1
MaxNoteIds == 3
MaxTime == 1
SeedMaxNotes == 3
MaxOwners == 2

\* ------------------------------------------------------ program constants

TitleMinLen == 1
TitleMaxLen == 200
BodyMaxLen == 2000
EmailMinLen == 3
EmailMaxLen == 255
LimitMin == 1
LimitMax == 100
LimitDefault == 20
OffsetMin == 0
OffsetDefault == 0
IdMin == 1
NoteBaseTitleMin == 1
NoteBaseTitleMax == 200
PatchTitleMin == 1
PatchTitleMax == 200

\* --------------------------------------------------------------- Optional

None == << >>

Some(v) == << v >>

IsNone(o) == o = << >>

Absent == << >>

Present(o) == << o >>

\* ------------------------------------------------------------------- text

\* the characters str.strip() removes: those str.isspace() holds of
Whitespace ==
    {"\t", "\n", "U+000B", "\f", "\r",
     "U+001C", "U+001D", "U+001E", "U+001F",
     " ", "U+0085", "U+00A0", "U+1680",
     "U+2000", "U+2001", "U+2002", "U+2003", "U+2004", "U+2005",
     "U+2006", "U+2007", "U+2008", "U+2009", "U+200A",
     "U+2028", "U+2029", "U+202F", "U+205F", "U+3000"}

RECURSIVE lstrip(_)
lstrip(s) ==
    IF s # << >> /\ Head(s) \in Whitespace THEN lstrip(Tail(s)) ELSE s

RECURSIVE rstrip(_)
rstrip(s) ==
    IF s # << >> /\ s[Len(s)] \in Whitespace
    THEN rstrip(SubSeq(s, 1, Len(s) - 1))
    ELSE s

\* str.strip()
strip(s) == rstrip(lstrip(s))

UpperCase ==
    <<"A", "B", "C", "D", "E", "F", "G", "H", "I", "J", "K", "L", "M",
      "N", "O", "P", "Q", "R", "S", "T", "U", "V", "W", "X", "Y", "Z">>

LowerCase ==
    <<"a", "b", "c", "d", "e", "f", "g", "h", "i", "j", "k", "l", "m",
      "n", "o", "p", "q", "r", "s", "t", "u", "v", "w", "x", "y", "z">>

\* lower-casing of one character, as ILIKE folds the case of a letter
lower_char(c) ==
    IF \E i \in 1..Len(UpperCase) : UpperCase[i] = c
    THEN LowerCase[CHOOSE i \in 1..Len(UpperCase) : UpperCase[i] = c]
    ELSE c

lower(s) == [i \in 1..Len(s) |-> lower_char(s[i])]

\* PostgreSQL LIKE: % matches any run of characters, _ any one character,
\* a backslash makes the next pattern character literal.
RECURSIVE like(_, _)
like(s, p) ==
    IF p = << >> THEN s = << >>
    ELSE IF Head(p) = "%"
         THEN like(s, Tail(p)) \/ (s # << >> /\ like(Tail(s), p))
    ELSE IF Head(p) = "_"
         THEN s # << >> /\ like(Tail(s), Tail(p))
    ELSE IF Head(p) = "\\" /\ Len(p) >= 2
         THEN s # << >> /\ Head(s) = p[2] /\ like(Tail(s), Tail(Tail(p)))
    ELSE s # << >> /\ Head(s) = Head(p) /\ like(Tail(s), Tail(p))

\* column.ilike(pattern) on a nullable column: NULL never satisfies a filter
ilike(col, p) == ~IsNone(col) /\ like(lower(col[1]), lower(p))

\* ------------------------------------------------------ Pydantic models

\* strip_text / strip_email, mode="before": a str is stripped, None passes
strip_text(v) == IF IsNone(v) THEN v ELSE Some(strip(v[1]))

\* the value a model sees for a field: the default None when the key is absent
field_value(f) == IF f = Absent THEN None ELSE f[1]

\* a faulty NoteIn: the title has no max_length
NoteIn_errors_no_max(payload) ==
    LET title == strip_text(field_value(payload.title))
        body == strip_text(field_value(payload.body))
    IN  {f \in {"title"} : IsNone(title) \/ Len(title[1]) < TitleMinLen}
        \cup
        {f \in {"body"} : ~IsNone(body) /\ Len(body[1]) > BodyMaxLen}

\* NoteIn: the fields that fail validation
NoteIn_errors(payload) ==
    LET title == strip_text(field_value(payload.title))
        body == strip_text(field_value(payload.body))
    IN  {f \in {"title"} :
            \/ IsNone(title)
            \/ Len(title[1]) < TitleMinLen
            \/ Len(title[1]) > TitleMaxLen}
        \cup
        {f \in {"body"} : ~IsNone(body) /\ Len(body[1]) > BodyMaxLen}

NoteIn(payload) ==
    [title |-> strip_text(field_value(payload.title)),
     body |-> strip_text(field_value(payload.body)),
     user_id |-> field_value(payload.user_id)]

\* NoteUpdate: every field Optional with default None
NoteUpdate_errors(payload) ==
    LET title == strip_text(field_value(payload.title))
        body == strip_text(field_value(payload.body))
    IN  {f \in {"title"} :
            /\ ~IsNone(title)
            /\ \/ Len(title[1]) < TitleMinLen
               \/ Len(title[1]) > TitleMaxLen}
        \cup
        {f \in {"body"} : ~IsNone(body) /\ Len(body[1]) > BodyMaxLen}

NoteUpdate(payload) ==
    [title |-> strip_text(field_value(payload.title)),
     body |-> strip_text(field_value(payload.body)),
     user_id |-> field_value(payload.user_id)]

UserIn_errors(payload) ==
    LET email == strip_text(field_value(payload.email))
        hashed_password == field_value(payload.hashed_password)
    IN  {f \in {"email"} :
            \/ IsNone(email)
            \/ Len(email[1]) < EmailMinLen
            \/ Len(email[1]) > EmailMaxLen}
        \cup
        {f \in {"hashed_password"} :
            ~IsNone(hashed_password) /\ Len(hashed_password[1]) > EmailMaxLen}

UserIn(payload) ==
    [email |-> strip_text(field_value(payload.email)),
     hashed_password |-> field_value(payload.hashed_password)]

\* ------------------------------------------------------------ serializers

\* datetime.isoformat()
isoformat(t) == <<"iso", t>>

note_to_dict(id, n) ==
    [id |-> id,
     title |-> n.title,
     body |-> n.body,
     user_id |-> n.user_id,
     created_at |-> IF IsNone(n.created_at) THEN None
                    ELSE Some(isoformat(n.created_at[1])),
     updated_at |-> IF IsNone(n.updated_at) THEN None
                    ELSE Some(isoformat(n.updated_at[1]))]

user_to_dict(id, u) ==
    [id |-> id,
     email |-> u.email,
     created_at |-> IF IsNone(u.created_at) THEN None
                    ELSE Some(isoformat(u.created_at[1]))]

\* -------------------------------------------------------------- responses

ValidationError(fields) ==
    [status |-> 422, body |-> [error |-> "ValidationError", details |-> fields]]

NotFound == [status |-> 404, body |-> [detail |-> "Note not found"]]

\* an exception no handler catches (sqlalchemy.exc.IntegrityError at commit):
\* the server answers 500 with a body of plain text
InternalServerError == [status |-> 500, body |-> "Internal Server Error"]

\* ------------------------------------------------------------------ store

\* a faulty INSERT: the body column is left out
Note_without_body(title, body, user_id, at) ==
    [title |-> title, body |-> None, user_id |-> user_id,
     created_at |-> Some(at), updated_at |-> Some(at)]

\* a row of table notes as the INSERT leaves it: both timestamps default to
\* now(), the start of the transaction
Note(title, body, user_id, at) ==
    [title |-> title, body |-> body, user_id |-> user_id,
     created_at |-> Some(at), updated_at |-> Some(at)]

\* a row of table users
User(email, hashed_password, at) ==
    [email |-> email, hashed_password |-> hashed_password,
     created_at |-> Some(at), updated_at |-> Some(at)]

\* ForeignKey("users.id") on notes.user_id
fk_ok(user_id) == IsNone(user_id) \/ user_id[1] \in DOMAIN users

\* unique=True on users.email (NULLs never collide)
email_free(email) ==
    IsNone(email) \/ \A u \in DOMAIN users : users[u].email # email

\* ---------------------------------------------------------------- workers

\* the threads that serve requests (the seed script runs as one more client
\* of the store and takes a slot as well)
Workers == 1..MaxWorkers

Init ==
    /\ users = << >>
    /\ notes = << >>
    /\ user_id_seq = 0
    /\ note_id_seq = 0
    /\ now = 0
    /\ request = [w \in Workers |-> [op |-> "none", pc |-> "idle"]]
    /\ response = [w \in Workers |-> [status |-> 0, body |-> None]]

\* the clock of the store advances
Tick ==
    /\ now < MaxTime
    /\ now' = now + 1
    /\ UNCHANGED <<store, request, response>>

\* worker w serves no request
idle(w) == request[w].op = "none"

\* the handler of worker w goes on: r is its request with its next position
\* and its locals
goto(w, r) ==
    /\ request' = [request EXCEPT ![w] = r]
    /\ UNCHANGED response

\* the handler of worker w is over (it returns or raises): resp is the answer
answer(w, r, resp) ==
    /\ request' = [request EXCEPT ![w] = [r EXCEPT !.pc = "done"]]
    /\ response' = [response EXCEPT ![w] = resp]

\* worker w is at position pc of the handler of op
position(w, op, pc) == request[w].op = op /\ request[w].pc = pc

\* get_db: the session of the request is closed, the request is over
close(w) ==
    /\ request[w].pc = "done"
    /\ request' = [request EXCEPT ![w] = [op |-> "none", pc |-> "idle"]]
    /\ response' = [response EXCEPT ![w] = [status |-> 0, body |-> None]]
    /\ UNCHANGED <<store, now>>

\* --------------------------------------------------- rows not yet committed

\* the rows of table users that the transaction of worker v has inserted and
\* not committed: no other transaction sees them
uncommitted_users(v) ==
    IF \/ position(v, "create_user", "commit")
       \/ position(v, "seed", "commit_user")
    THEN request[v].id :> request[v].u
    ELSE << >>

\* the rows of table notes that the transaction of worker v has inserted and
\* not committed
uncommitted_notes(v) ==
    IF \/ position(v, "create_note", "commit")
       \/ position(v, "router_create_note", "commit")
    THEN request[v].id :> request[v].n
    ELSE IF \/ position(v, "seed", "insert_docker")
            \/ position(v, "seed", "commit_notes")
    THEN request[v].rows
    ELSE << >>

\* the unique index on users.email holds the email for a row that a
\* transaction other than that of w has not committed yet: an INSERT of the
\* same email waits for that transaction to end
email_held(w, email) ==
    /\ ~IsNone(email)
    /\ \E v \in Workers \ {w} :
          \E id \in DOMAIN uncommitted_users(v) : uncommitted_users(v)[id].email = email

\* the users that the foreign key of an uncommitted note has checked: the
\* check holds their rows against a delete until the transaction ends
referenced(v) ==
    LET rows == uncommitted_notes(v)
    IN  IF request[v].op = "seed" /\ DOMAIN rows # {} /\ ~request[v].checked
        THEN {}
        ELSE {rows[n].user_id[1] : n \in {m \in DOMAIN rows : ~IsNone(rows[m].user_id)}}

\* ------------------------------------------------------------------ users

\* POST /users: validation, db.add(u), then the INSERT that db.commit()
\* flushes.  The INSERT draws the id; it fails on an email that is stored and
\* waits on an email that another transaction has inserted and not committed.
create_user(w, payload) ==
    LET errors == UserIn_errors(payload)
        user == UserIn(payload)
        id == user_id_seq + 1
        r == [op |-> "create_user", pc |-> "commit", payload |-> payload, id |-> id,
              u |-> User(user.email, user.hashed_password, now)]
    IN  /\ idle(w)
        /\ IF errors # {}
           THEN /\ answer(w, [op |-> "create_user", pc |-> "done", payload |-> payload],
                          ValidationError(errors))
                /\ UNCHANGED store
           ELSE /\ user_id_seq' = id
                /\ IF ~email_free(user.email)
                   THEN answer(w, r, InternalServerError)
                   ELSE IF email_held(w, user.email)
                   THEN goto(w, [r EXCEPT !.pc = "wait"])
                   ELSE goto(w, r)
                /\ UNCHANGED <<users, notes, note_id_seq>>
        /\ UNCHANGED now

\* POST /users: the INSERT that waited goes on once the transaction that held
\* the email has ended
create_user_wait(w) ==
    LET r == request[w]
    IN  /\ position(w, "create_user", "wait")
        /\ ~email_held(w, r.u.email)
        /\ IF email_free(r.u.email)
           THEN goto(w, [r EXCEPT !.pc = "commit"])
           ELSE answer(w, r, InternalServerError)
        /\ UNCHANGED <<store, now>>

\* POST /users: the COMMIT of db.commit()
create_user_commit(w) ==
    LET r == request[w]
    IN  /\ position(w, "create_user", "commit")
        /\ users' = users @@ (r.id :> r.u)
        /\ goto(w, [op |-> "create_user", pc |-> "refresh", payload |-> r.payload,
                    id |-> r.id])
        /\ UNCHANGED <<notes, user_id_seq, note_id_seq, now>>

\* POST /users: db.refresh(u); return user_to_dict(u)
create_user_refresh(w) ==
    LET r == request[w]
    IN  /\ position(w, "create_user", "refresh")
        /\ IF r.id \in DOMAIN users
           THEN answer(w, r, [status |-> 201, body |-> user_to_dict(r.id, users[r.id])])
           ELSE answer(w, r, InternalServerError)
        /\ UNCHANGED <<store, now>>

RECURSIVE any_order(_)
\* every order the store may return the rows of S in when no order is asked
any_order(S) ==
    IF S = {} THEN {<< >>}
    ELSE UNION {{<<first>> \o rest : rest \in any_order(S \ {first})} : first \in S}

\* GET /users
list_users(w) ==
    /\ idle(w)
    /\ \E rows \in any_order(DOMAIN users) :
          answer(w, [op |-> "list_users", pc |-> "done"],
                 [status |-> 200,
                  body |-> [i \in 1..Len(rows) |-> user_to_dict(rows[i], users[rows[i]])]])
    /\ UNCHANGED <<store, now>>

\* ------------------------------------------------------------------ notes

\* the notes a listing selects: q (when truthy) against title or body,
\* user_id (when given) against the owner
matching(q, user_id) ==
    {id \in DOMAIN notes :
        /\ (~IsNone(q) /\ q[1] # << >>) =>
              LET pattern == <<"%">> \o strip(q[1]) \o <<"%">>
              IN  ilike(notes[id].title, pattern) \/ ilike(notes[id].body, pattern)
        /\ ~IsNone(user_id) => notes[id].user_id = user_id}

\* ORDER BY created_at DESC NULLS LAST: a precedes b
created_at_desc_nullslast(a, b) ==
    \/ IsNone(notes[b].created_at)
    \/ /\ ~IsNone(notes[a].created_at)
       /\ notes[a].created_at[1] >= notes[b].created_at[1]

RECURSIVE order_by(_)
\* every order the store may return the rows of S in: a row that no other row
\* must precede comes first; rows with equal keys come in any order
order_by(S) ==
    IF S = {} THEN {<< >>}
    ELSE UNION {{<<first>> \o rest : rest \in order_by(S \ {first})} :
                  first \in {a \in S : \A b \in S : created_at_desc_nullslast(a, b)}}

\* OFFSET offset LIMIT limit
window(s, offset, limit) ==
    IF offset >= Len(s) THEN << >>
    ELSE SubSeq(s, offset + 1,
                IF offset + limit < Len(s) THEN offset + limit ELSE Len(s))

\* the query parameters that fail validation
list_notes_errors(user_id, limit, offset) ==
    {f \in {"user_id"} : ~IsNone(user_id) /\ user_id[1] < IdMin}
    \cup {f \in {"limit"} :
            ~IsNone(limit) /\ (limit[1] < LimitMin \/ limit[1] > LimitMax)}
    \cup {f \in {"offset"} : ~IsNone(offset) /\ offset[1] < OffsetMin}

\* a faulty listing: the rows it counts are written back as touched
list_notes_touching(w, q, user_id, limit, offset) ==
    LET errors == list_notes_errors(user_id, limit, offset)
        qry == matching(q, user_id)
        r == [op |-> "list_notes", pc |-> "items", q |-> q, user_id |-> user_id,
              limit |-> IF IsNone(limit) THEN LimitDefault ELSE limit[1],
              offset |-> IF IsNone(offset) THEN OffsetDefault ELSE offset[1],
              total |-> Cardinality(qry)]
    IN  /\ idle(w)
        /\ IF errors # {} THEN answer(w, r, ValidationError(errors)) ELSE goto(w, r)
        /\ notes' = [id \in DOMAIN notes |->
                        IF id \in qry THEN [notes[id] EXCEPT !.updated_at = Some(now)]
                        ELSE notes[id]]
        /\ UNCHANGED <<users, user_id_seq, note_id_seq, now>>

\* GET /notes: validation, the filters, then total = qry.count()
list_notes(w, q, user_id, limit, offset) ==
    LET errors == list_notes_errors(user_id, limit, offset)
        qry == matching(q, user_id)
        r == [op |-> "list_notes", pc |-> "items", q |-> q, user_id |-> user_id,
              limit |-> IF IsNone(limit) THEN LimitDefault ELSE limit[1],
              offset |-> IF IsNone(offset) THEN OffsetDefault ELSE offset[1],
              total |-> Cardinality(qry)]
    IN  /\ idle(w)
        /\ IF errors # {} THEN answer(w, r, ValidationError(errors)) ELSE goto(w, r)
        /\ UNCHANGED <<store, now>>

\* GET /notes: items = qry.order_by(...).offset(offset).limit(limit).all(),
\* then the answer
list_notes_items(w) ==
    LET r == request[w]
    IN  /\ position(w, "list_notes", "items")
        /\ \E rows \in order_by(matching(r.q, r.user_id)) :
              LET items == window(rows, r.offset, r.limit)
              IN  answer(w, r,
                         [status |-> 200,
                          body |-> [items |-> [i \in 1..Len(items) |->
                                        note_to_dict(items[i], notes[items[i]])],
                                    total |-> r.total,
                                    limit |-> r.limit,
                                    offset |-> r.offset]])
        /\ UNCHANGED <<store, now>>

\* GET /notes/{note_id}: what the handler answers in the current store
get_note_response(note_id) ==
    IF note_id < IdMin THEN ValidationError({"note_id"})
    ELSE IF note_id \notin DOMAIN notes THEN NotFound
    ELSE [status |-> 200, body |-> note_to_dict(note_id, notes[note_id])]

\* GET /notes/{note_id}
get_note(w, note_id) ==
    /\ idle(w)
    /\ answer(w, [op |-> "get_note", pc |-> "done", note_id |-> note_id],
              get_note_response(note_id))
    /\ UNCHANGED <<store, now>>

\* POST /notes: validation, the title check, db.add(n), then the INSERT that
\* db.commit() flushes.  The INSERT draws the id and checks the foreign key
\* against the users that are committed.
create_note(w, payload) ==
    LET errors == NoteIn_errors(payload)
        note == NoteIn(payload)
        id == note_id_seq + 1
        r == [op |-> "create_note", pc |-> "commit", payload |-> payload, id |-> id]
    IN  /\ idle(w)
        /\ IF errors # {}
           THEN /\ answer(w, r, ValidationError(errors))
                /\ UNCHANGED store
           ELSE IF note.title[1] = << >>
           THEN /\ answer(w, r, [status |-> 422, body |-> [detail |-> "Title is required"]])
                /\ UNCHANGED store
           ELSE /\ note_id_seq' = id
                /\ IF fk_ok(note.user_id)
                   THEN goto(w, r @@ [n |-> Note(note.title, note.body, note.user_id, now)])
                   ELSE answer(w, r, InternalServerError)
                /\ UNCHANGED <<users, notes, user_id_seq>>
        /\ UNCHANGED now

\* POST /notes: the COMMIT of db.commit()
create_note_commit(w) ==
    LET r == request[w]
    IN  /\ position(w, "create_note", "commit")
        /\ notes' = notes @@ (r.id :> r.n)
        /\ goto(w, [op |-> "create_note", pc |-> "refresh", payload |-> r.payload,
                    id |-> r.id])
        /\ UNCHANGED <<users, user_id_seq, note_id_seq, now>>

\* POST /notes: db.refresh(n); return note_to_dict(n)
create_note_refresh(w) ==
    LET r == request[w]
    IN  /\ position(w, "create_note", "refresh")
        /\ IF r.id \in DOMAIN notes
           THEN answer(w, r, [status |-> 201, body |-> note_to_dict(r.id, notes[r.id])])
           ELSE answer(w, r, InternalServerError)
        /\ UNCHANGED <<store, now>>

\* faulty assignments: the payload replaces the whole note
assign_all(n, data) ==
    [n EXCEPT !.title = data.title, !.body = data.body, !.user_id = data.user_id]

\* the row after the handler's assignments: a field of the payload that is
\* None (absent or null) leaves the attribute alone
assign(n, data) ==
    [n EXCEPT !.title = IF ~IsNone(data.title) THEN data.title ELSE @,
              !.body = IF ~IsNone(data.body) THEN data.body ELSE @,
              !.user_id = IF ~IsNone(data.user_id) THEN data.user_id ELSE @]

\* a faulty flush: the UPDATE sets created_at as well
flush_created_at(row, old, new, time) ==
    IF new = old THEN row
    ELSE [row EXCEPT !.title = IF new.title # old.title THEN new.title ELSE @,
                     !.body = IF new.body # old.body THEN new.body ELSE @,
                     !.user_id = IF new.user_id # old.user_id THEN new.user_id ELSE @,
                     !.created_at = Some(time),
                     !.updated_at = Some(time)]

\* the UPDATE the flush emits on the stored row: none when no attribute differs
\* from the value that was loaded, otherwise the columns that differ and
\* updated_at = now()
flush(row, old, new, time) ==
    IF new = old THEN row
    ELSE [row EXCEPT !.title = IF new.title # old.title THEN new.title ELSE @,
                     !.body = IF new.body # old.body THEN new.body ELSE @,
                     !.user_id = IF new.user_id # old.user_id THEN new.user_id ELSE @,
                     !.updated_at = Some(time)]

\* PUT /notes/{note_id}: validation, then n = db.get(Note, note_id)
update_note(w, note_id, payload) ==
    LET errors == {f \in {"note_id"} : note_id < IdMin}
                  \cup NoteUpdate_errors(payload)
        r == [op |-> "update_note", pc |-> "commit", note_id |-> note_id,
              payload |-> payload]
    IN  /\ idle(w)
        /\ IF errors # {}
           THEN answer(w, r, ValidationError(errors))
           ELSE IF note_id \notin DOMAIN notes
           THEN answer(w, r, NotFound)
           ELSE goto(w, r @@ [n |-> notes[note_id], at |-> now])
        /\ UNCHANGED <<store, now>>

\* PUT /notes/{note_id}: the assignments, then db.commit()
update_note_commit(w) ==
    LET r == request[w]
        new == assign(r.n, NoteUpdate(r.payload))
    IN  /\ position(w, "update_note", "commit")
        /\ IF new = r.n
           THEN /\ goto(w, [r EXCEPT !.pc = "refresh"])
                /\ notes' = notes
           ELSE IF r.note_id \notin DOMAIN notes
           THEN /\ answer(w, r, InternalServerError)
                /\ notes' = notes
           ELSE IF new.user_id # r.n.user_id /\ ~fk_ok(new.user_id)
           THEN /\ answer(w, r, InternalServerError)
                /\ notes' = notes
           ELSE /\ goto(w, [r EXCEPT !.pc = "refresh"])
                /\ notes' = [notes EXCEPT ![r.note_id] = flush(@, r.n, new, r.at)]
        /\ UNCHANGED <<users, user_id_seq, note_id_seq, now>>

\* PUT /notes/{note_id}: db.refresh(n); return note_to_dict(n)
update_note_refresh(w) ==
    LET r == request[w]
    IN  /\ position(w, "update_note", "refresh")
        /\ IF r.note_id \in DOMAIN notes
           THEN answer(w, r, [status |-> 200,
                              body |-> note_to_dict(r.note_id, notes[r.note_id])])
           ELSE answer(w, r, InternalServerError)
        /\ UNCHANGED <<store, now>>

\* the table without a row
delete(id) == [i \in DOMAIN notes \ {id} |-> notes[i]]

\* a faulty DELETE: a missing row is reported as deleted
delete_note_idempotent(w, note_id) ==
    /\ idle(w)
    /\ goto(w, [op |-> "delete_note", pc |-> "commit", note_id |-> note_id])
    /\ UNCHANGED <<store, now>>

\* DELETE /notes/{note_id}: n = db.get(Note, note_id)
delete_note(w, note_id) ==
    LET r == [op |-> "delete_note", pc |-> "commit", note_id |-> note_id]
    IN  /\ idle(w)
        /\ IF note_id \notin DOMAIN notes
           THEN answer(w, r, NotFound)
           ELSE goto(w, r)
        /\ UNCHANGED <<store, now>>

\* DELETE /notes/{note_id}: db.delete(n); db.commit(); a DELETE that matches
\* no row is only warned about
delete_note_commit(w) ==
    LET r == request[w]
    IN  /\ position(w, "delete_note", "commit")
        /\ notes' = delete(r.note_id)
        /\ answer(w, r, [status |-> 204, body |-> None])
        /\ UNCHANGED <<users, user_id_seq, note_id_seq, now>>

\* ------------------------------------------------------ deleting a user

\* a faulty cascade: the notes of the user stay behind
cascade_none(user_id) == notes

\* notes.user_id ForeignKey ondelete="CASCADE", User.notes cascade="all,
\* delete-orphan": the notes table once the notes of the user went with it
cascade(user_id) ==
    [id \in {n \in DOMAIN notes : notes[n].user_id # Some(user_id)} |-> notes[id]]

\* User.notes: the ids of the notes a user owns
User_notes(user_id) == {n \in DOMAIN notes : notes[n].user_id = Some(user_id)}

\* a row of table users is deleted (no endpoint of the service does it), and
\* its notes with it; the DELETE waits while an uncommitted note refers to
\* the user
delete_user(w, user_id) ==
    /\ idle(w)
    /\ user_id \in DOMAIN users
    /\ \A v \in Workers : user_id \notin referenced(v)
    /\ answer(w, [op |-> "delete_user", pc |-> "done", user_id |-> user_id,
                  notes |-> User_notes(user_id)],
              [status |-> 0, body |-> None])
    /\ users' = [id \in DOMAIN users \ {user_id} |-> users[id]]
    /\ notes' = cascade(user_id)
    /\ UNCHANGED <<user_id_seq, note_id_seq, now>>

\* ------------------------------------------------------------------- seed

DemoEmail == <<"d", "e", "m", "o", "@", "l", "o", "c", "a", "l">>

DemoPassword == <<"d", "e", "m", "o">>

\* the script ends: its exit status, 1 after an exception nothing catches
exit(status) == [status |-> status, body |-> None]

\* python -m app.seed: user = select(User).where(User.email == "demo@local")
seed(w) ==
    LET found == {u \in DOMAIN users : users[u].email = Some(DemoEmail)}
    IN  /\ idle(w)
        /\ IF found = {}
           THEN goto(w, [op |-> "seed", pc |-> "insert_user", at |-> now])
           ELSE goto(w, [op |-> "seed", pc |-> "count", at |-> now,
                         user |-> CHOOSE u \in found : TRUE])
        /\ UNCHANGED <<store, now>>

\* seed: db.add(user), then the INSERT that db.commit() flushes
seed_insert_user(w) ==
    LET id == user_id_seq + 1
        r == [op |-> "seed", pc |-> "commit_user", at |-> request[w].at, id |-> id,
              u |-> User(Some(DemoEmail), Some(DemoPassword), request[w].at)]
    IN  /\ position(w, "seed", "insert_user")
        /\ user_id_seq' = id
        /\ IF ~email_free(Some(DemoEmail))
           THEN answer(w, r, exit(1))
           ELSE IF email_held(w, Some(DemoEmail))
           THEN goto(w, [r EXCEPT !.pc = "wait_user"])
           ELSE goto(w, r)
        /\ UNCHANGED <<users, notes, note_id_seq, now>>

\* seed: the INSERT that waited goes on once the transaction that held the
\* email has ended
seed_wait_user(w) ==
    LET r == request[w]
    IN  /\ position(w, "seed", "wait_user")
        /\ ~email_held(w, r.u.email)
        /\ IF email_free(r.u.email)
           THEN goto(w, [r EXCEPT !.pc = "commit_user"])
           ELSE answer(w, r, exit(1))
        /\ UNCHANGED <<store, now>>

\* seed: the COMMIT of the first db.commit()
seed_commit_user(w) ==
    LET r == request[w]
    IN  /\ position(w, "seed", "commit_user")
        /\ users' = users @@ (r.id :> r.u)
        /\ goto(w, [op |-> "seed", pc |-> "refresh", at |-> r.at, user |-> r.id])
        /\ UNCHANGED <<notes, user_id_seq, note_id_seq, now>>

\* seed: db.refresh(user), the first statement of a new transaction
seed_refresh(w) ==
    LET r == request[w]
    IN  /\ position(w, "seed", "refresh")
        /\ IF r.user \in DOMAIN users
           THEN goto(w, [r EXCEPT !.pc = "count", !.at = now])
           ELSE answer(w, r, exit(1))
        /\ UNCHANGED <<store, now>>

\* a faulty seed script: the notes are inserted whatever the table holds
seed_count_always(w) ==
    /\ position(w, "seed", "count")
    /\ goto(w, [request[w] EXCEPT !.pc = "insert_notes"])
    /\ UNCHANGED <<store, now>>

\* seed: notes_count = db.query(Note).count(); if notes_count == 0
seed_count(w) ==
    LET r == request[w]
    IN  /\ position(w, "seed", "count")
        /\ IF DOMAIN notes = {}
           THEN goto(w, [r EXCEPT !.pc = "insert_notes"])
           ELSE answer(w, r, exit(0))
        /\ UNCHANGED <<store, now>>

\* seed: db.add_all([Hello, Docker]), then the INSERT of the first row that
\* db.commit() flushes: the row draws its id.  The foreign key is checked
\* with the row when the driver sends the rows one by one (checked), and
\* after the second row when it sends them together.
seed_insert_notes(w) ==
    LET r == request[w]
        id == note_id_seq + 1
        hello == Note(Some(<<"H", "e", "l", "l", "o">>),
                      Some(<<"F", "r", "o", "m", " ", "s", "e", "e", "d">>),
                      Some(r.user), r.at)
    IN  /\ position(w, "seed", "insert_notes")
        /\ note_id_seq' = id
        /\ \E checked \in BOOLEAN :
              IF checked /\ r.user \notin DOMAIN users
              THEN answer(w, r, exit(1))
              ELSE goto(w, [r EXCEPT !.pc = "insert_docker"]
                           @@ [rows |-> id :> hello, checked |-> checked])
        /\ UNCHANGED <<users, notes, user_id_seq, now>>

\* seed: the INSERT of the second row, which draws its id (not the next one
\* when another INSERT drew in between)
seed_insert_docker(w) ==
    LET r == request[w]
        id == note_id_seq + 1
        docker == Note(Some(<<"D", "o", "c", "k", "e", "r">>),
                       Some(<<"C", "o", "m", "p", "o", "s", "e", " ", "d", "e", "v">>),
                       Some(r.user), r.at)
    IN  /\ position(w, "seed", "insert_docker")
        /\ note_id_seq' = id
        /\ IF r.user \in DOMAIN users
           THEN goto(w, [r EXCEPT !.pc = "commit_notes",
                                  !.rows = @ @@ (id :> docker),
                                  !.checked = TRUE])
           ELSE answer(w, r, exit(1))
        /\ UNCHANGED <<users, notes, user_id_seq, now>>

\* seed: the COMMIT of the second db.commit(); the script ends
seed_commit_notes(w) ==
    LET r == request[w]
    IN  /\ position(w, "seed", "commit_notes")
        /\ notes' = notes @@ r.rows
        /\ answer(w, [op |-> "seed", pc |-> "done", at |-> r.at, user |-> r.user],
                  exit(0))
        /\ UNCHANGED <<users, user_id_seq, note_id_seq, now>>

\* ------------------------------------------------------ the notes router

\* the answer to a request that fails validation when no handler is
\* installed for the exception
RequestValidationError(fields) == [status |-> 422, body |-> [detail |-> fields]]

\* schemas.NoteCreate: the fields that fail validation; nothing is stripped,
\* body has no bound, user_id is required
NoteCreate_errors(payload) ==
    LET title == field_value(payload.title)
        user_id == field_value(payload.user_id)
    IN  {f \in {"title"} :
            \/ IsNone(title)
            \/ Len(title[1]) < NoteBaseTitleMin
            \/ Len(title[1]) > NoteBaseTitleMax}
        \cup
        {f \in {"user_id"} : IsNone(user_id)}

NoteCreate(payload) ==
    [title |-> field_value(payload.title),
     body |-> field_value(payload.body),
     user_id |-> field_value(payload.user_id)]

\* schemas.NoteUpdate: title and body, both Optional; any other key is ignored
schemas_NoteUpdate_errors(payload) ==
    LET title == field_value(payload.title)
    IN  {f \in {"title"} :
            /\ ~IsNone(title)
            /\ \/ Len(title[1]) < PatchTitleMin
               \/ Len(title[1]) > PatchTitleMax}

schemas_NoteUpdate(payload) ==
    [title |-> field_value(payload.title),
     body |-> field_value(payload.body)]

\* datetime as the response model writes it
NoteRead_datetime(t) == <<"iso8601", t>>

\* schemas.NoteRead, the response model: the fields of a row that fail it
NoteRead_errors(n) ==
    {f \in {"title"} :
        \/ IsNone(n.title)
        \/ Len(n.title[1]) < NoteBaseTitleMin
        \/ Len(n.title[1]) > NoteBaseTitleMax}
    \cup
    {f \in {"user_id"} : IsNone(n.user_id)}

NoteRead(id, n) ==
    [title |-> n.title,
     body |-> n.body,
     id |-> id,
     created_at |-> IF IsNone(n.created_at) THEN None
                    ELSE Some(NoteRead_datetime(n.created_at[1])),
     updated_at |-> IF IsNone(n.updated_at) THEN None
                    ELSE Some(NoteRead_datetime(n.updated_at[1])),
     user_id |-> n.user_id]

\* the answer of a handler of the router that returns the row of id: the row
\* through the response model, or 500 when the row fails the model
router_return(status, id) ==
    IF id \notin DOMAIN notes THEN InternalServerError
    ELSE IF NoteRead_errors(notes[id]) # {} THEN InternalServerError
    ELSE [status |-> status, body |-> NoteRead(id, notes[id])]

\* router POST /notes: validation, db.add(note), then the INSERT that
\* db.commit() flushes
router_create_note(w, payload) ==
    LET errors == NoteCreate_errors(payload)
        note == NoteCreate(payload)
        id == note_id_seq + 1
        r == [op |-> "router_create_note", pc |-> "commit", payload |-> payload,
              id |-> id]
    IN  /\ idle(w)
        /\ IF errors # {}
           THEN /\ answer(w, r, RequestValidationError(errors))
                /\ UNCHANGED store
           ELSE /\ note_id_seq' = id
                /\ IF fk_ok(note.user_id)
                   THEN goto(w, r @@ [n |-> Note(note.title, note.body, note.user_id, now)])
                   ELSE answer(w, r, InternalServerError)
                /\ UNCHANGED <<users, notes, user_id_seq>>
        /\ UNCHANGED now

\* router POST /notes: the COMMIT of db.commit()
router_create_note_commit(w) ==
    LET r == request[w]
    IN  /\ position(w, "router_create_note", "commit")
        /\ notes' = notes @@ (r.id :> r.n)
        /\ goto(w, [op |-> "router_create_note", pc |-> "refresh",
                    payload |-> r.payload, id |-> r.id])
        /\ UNCHANGED <<users, user_id_seq, note_id_seq, now>>

\* router POST /notes: db.refresh(note); return note
router_create_note_refresh(w) ==
    /\ position(w, "router_create_note", "refresh")
    /\ answer(w, request[w], router_return(201, request[w].id))
    /\ UNCHANGED <<store, now>>

\* the row after the assignments of the router's update_note
router_assign(n, data) ==
    [n EXCEPT !.title = IF ~IsNone(data.title) THEN data.title ELSE @,
              !.body = IF ~IsNone(data.body) THEN data.body ELSE @]

\* router PATCH /notes/{note_id}: validation, then note = db.get(Note, note_id);
\* note_id is any integer
router_update_note(w, note_id, payload) ==
    LET errors == schemas_NoteUpdate_errors(payload)
        r == [op |-> "router_update_note", pc |-> "commit", note_id |-> note_id,
              payload |-> payload]
    IN  /\ idle(w)
        /\ IF errors # {}
           THEN answer(w, r, RequestValidationError(errors))
           ELSE IF note_id \notin DOMAIN notes
           THEN answer(w, r, NotFound)
           ELSE goto(w, r @@ [n |-> notes[note_id], at |-> now])
        /\ UNCHANGED <<store, now>>

\* router PATCH /notes/{note_id}: the assignments, then db.commit()
router_update_note_commit(w) ==
    LET r == request[w]
        new == router_assign(r.n, schemas_NoteUpdate(r.payload))
    IN  /\ position(w, "router_update_note", "commit")
        /\ IF new = r.n
           THEN /\ goto(w, [r EXCEPT !.pc = "refresh"])
                /\ notes' = notes
           ELSE IF r.note_id \notin DOMAIN notes
           THEN /\ answer(w, r, InternalServerError)
                /\ notes' = notes
           ELSE /\ goto(w, [r EXCEPT !.pc = "refresh"])
                /\ notes' = [notes EXCEPT ![r.note_id] = flush(@, r.n, new, r.at)]
        /\ UNCHANGED <<users, user_id_seq, note_id_seq, now>>

\* router PATCH /notes/{note_id}: db.refresh(note); return note
router_update_note_refresh(w) ==
    /\ position(w, "router_update_note", "refresh")
    /\ answer(w, request[w], router_return(200, request[w].note_id))
    /\ UNCHANGED <<store, now>>

\* ----------------------------------------------------------------- inputs

Field(title, body, user_id) == [title |-> title, body |-> body, user_id |-> user_id]

Text(s) == Present(Some(s))

\* an id no user has
NoUser == MaxUserIds + 1

NotePayloads ==
    {Field(Text(<<"\t", "B", " ">>), Text(<<"x", "\n">>), Absent),
     Field(Text(<<"a">>), Absent, Present(Some(1))),
     Field(Text(<<"\t">>), Absent, Absent)}

UserPayloads ==
    {[email |-> Text(<<"\t", "a", "@", "b">>), hashed_password |-> Absent],
     [email |-> Text(<<"\n", "a", "b">>), hashed_password |-> Absent]}

NoteIdInputs == 0..MaxNoteIds

\* the ids of the notes that are inserted and not committed
in_flight == UNION {DOMAIN uncommitted_notes(v) : v \in Workers}

\* the rows that the INSERTs under way have still to draw an id for
to_come == Cardinality({v \in Workers : position(v, "seed", "insert_docker")})

\* the store has room for k more notes and u more users within the bounds
room(k, u) ==
    /\ Cardinality(DOMAIN notes) + Cardinality(in_flight) + to_come + k <= MaxNotes
    /\ note_id_seq + to_come + k <= MaxNoteIds
    /\ user_id_seq + u <= MaxUserIds

\* ------------------------------------------------------------ the service

SpecNotePayloads ==
    {Field(Text(<<"a">>), Absent, Absent),
     Field(Text(<<"a">>), Absent, Present(Some(1)))}

SpecUpdates ==
    {Field(Absent, Text(<<"x">>), Absent),
     Field(Absent, Absent, Present(Some(1)))}

Next ==
    \/ Tick
    \/ \E w \in Workers : close(w)
    \/ \E w \in Workers, payload \in UserPayloads : room(0, 1) /\ create_user(w, payload)
    \/ \E w \in Workers : create_user_commit(w)
    \/ \E w \in Workers : create_user_refresh(w)
    \/ \E w \in Workers : list_users(w)
    \/ \E w \in Workers : list_notes(w, None, None, None, None)
    \/ \E w \in Workers : list_notes_items(w)
    \/ \E w \in Workers, note_id \in {1} : get_note(w, note_id)
    \/ \E w \in Workers, payload \in SpecNotePayloads :
          room(1, 0) /\ create_note(w, payload)
    \/ \E w \in Workers : create_note_commit(w)
    \/ \E w \in Workers : create_note_refresh(w)
    \/ \E w \in Workers, note_id \in {1}, payload \in SpecUpdates :
          update_note(w, note_id, payload)
    \/ \E w \in Workers : update_note_commit(w)
    \/ \E w \in Workers : update_note_refresh(w)
    \/ \E w \in Workers, note_id \in {1} : delete_note(w, note_id)
    \/ \E w \in Workers : delete_note_commit(w)
    \/ \E w \in Workers : seed(w)
    \/ \E w \in Workers : room(0, 1) /\ seed_insert_user(w)
    \/ \E w \in Workers : seed_commit_user(w)
    \/ \E w \in Workers : seed_refresh(w)
    \/ \E w \in Workers : seed_count(w)
    \/ \E w \in Workers : room(2, 0) /\ seed_insert_notes(w)
    \/ \E w \in Workers : seed_insert_docker(w)
    \/ \E w \in Workers : seed_commit_notes(w)

Spec == Init /\ [][Next]_vars

\* ------------------------------------- creating and deleting the notes

NextLife ==
    \/ Tick
    \/ \E w \in Workers : close(w)
    \/ \E w \in Workers, note_id \in NoteIdInputs : get_note(w, note_id)
    \/ \E w \in Workers, payload \in NotePayloads : room(1, 0) /\ create_note(w, payload)
    \/ \E w \in Workers : create_note_commit(w)
    \/ \E w \in Workers : create_note_refresh(w)
    \/ \E w \in Workers, note_id \in NoteIdInputs : delete_note(w, note_id)
    \/ \E w \in Workers : delete_note_commit(w)

SpecLife == Init /\ [][NextLife]_vars


\* --------------------------------------------------- updating the notes

UpdateNotePayloads ==
    {Field(Text(<<"\t", "B">>), Text(<<"x", "\n">>), Absent),
     Field(Text(<<"a">>), Absent, Present(Some(1)))}

\* the updates of the notes: nothing, a body, a null body, a title, an owner,
\* an owner that does not exist
NoteUpdates ==
    {Field(Absent, Absent, Absent),
     Field(Absent, Text(<<"x", "\n">>), Absent),
     Field(Absent, Present(None), Absent),
     Field(Text(<<"\t", "C">>), Absent, Absent),
     Field(Absent, Absent, Present(Some(1))),
     Field(Absent, Absent, Present(Some(NoUser)))}

UpdateUserPayloads == {[email |-> Text(<<"\t", "a", "@", "b">>), hashed_password |-> Absent]}

UpdateIdInputs == 0..MaxNotes

NextUpdate ==
    \/ \E w \in Workers : close(w)
    \/ \E w \in Workers, payload \in UpdateUserPayloads : room(0, 1) /\ create_user(w, payload)
    \/ \E w \in Workers : create_user_commit(w)
    \/ \E w \in Workers : create_user_refresh(w)
    \/ \E w \in Workers, payload \in UpdateNotePayloads :
          note_id_seq < MaxNotes /\ create_note(w, payload)
    \/ \E w \in Workers : create_note_commit(w)
    \/ \E w \in Workers : create_note_refresh(w)
    \/ \E w \in Workers, note_id \in UpdateIdInputs, payload \in NoteUpdates :
          update_note(w, note_id, payload)
    \/ \E w \in Workers : update_note_commit(w)
    \/ \E w \in Workers : update_note_refresh(w)
    \/ \E w \in Workers, note_id \in UpdateIdInputs : delete_note(w, note_id)
    \/ \E w \in Workers : delete_note_commit(w)

SpecUpdate == Init /\ [][NextUpdate]_vars

\* ------------------------------------------------------- the timestamps

StampPayloads ==
    {Field(Text(<<"a">>), Absent, Absent),
     Field(Text(<<"\t", "B">>), Text(<<"x", "\n">>), Absent)}

StampUpdates ==
    {Field(Absent, Absent, Absent),
     Field(Absent, Text(<<"y">>), Absent),
     Field(Text(<<"\t", "B">>), Absent, Absent)}

NextStamps ==
    \/ Tick
    \/ \E w \in Workers : close(w)
    \/ \E w \in Workers, payload \in StampPayloads :
          note_id_seq < MaxNotes /\ create_note(w, payload)
    \/ \E w \in Workers : create_note_commit(w)
    \/ \E w \in Workers : create_note_refresh(w)
    \/ \E w \in Workers, note_id \in UpdateIdInputs, payload \in StampUpdates :
          update_note(w, note_id, payload)
    \/ \E w \in Workers : update_note_commit(w)
    \/ \E w \in Workers : update_note_refresh(w)
    \/ \E w \in Workers, note_id \in UpdateIdInputs : delete_note(w, note_id)
    \/ \E w \in Workers : delete_note_commit(w)

SpecStamps == Init /\ [][NextStamps]_vars

\* --------------------------------------------------- paging the notes

PageNotePayloads ==
    {Field(Text(<<"a">>), Absent, Absent),
     Field(Text(<<"b">>), Absent, Present(Some(1)))}

PageUserPayloads == {[email |-> Text(<<"a", "@", "b">>), hashed_password |-> Absent]}

PageFilters ==
    {<<None, None>>, <<Some(<<"\t", "A">>), None>>, <<None, Some(1)>>}

LimitInputs == {None, Some(0), Some(1), Some(LimitMax + 1)}

OffsetInputs == {None, Some(-1), Some(1)}

NextPage ==
    \/ Tick
    \/ \E w \in Workers : close(w)
    \/ \E w \in Workers, payload \in PageUserPayloads :
          room(0, 1) /\ create_user(w, payload)
    \/ \E w \in Workers : create_user_commit(w)
    \/ \E w \in Workers : create_user_refresh(w)
    \/ \E w \in Workers, payload \in PageNotePayloads :
          note_id_seq < MaxNotes /\ create_note(w, payload)
    \/ \E w \in Workers : create_note_commit(w)
    \/ \E w \in Workers : create_note_refresh(w)
    \/ \E w \in Workers, f \in PageFilters, limit \in LimitInputs, offset \in OffsetInputs :
          list_notes(w, f[1], f[2], limit, offset)
    \/ \E w \in Workers : list_notes_items(w)

SpecPage == Init /\ [][NextPage]_vars

\* ------------------------------------------------- searching the notes

SearchNotePayloads ==
    {Field(Text(<<"H", "e", "l", "l", "o">>), Text(<<"x">>), Absent),
     Field(Text(<<"b">>), Text(<<"a", "_">>), Present(Some(1))),
     Field(Text(<<"%">>), Absent, Absent)}

QInputs ==
    {None, Some(<< >>), Some(<<"h", "e", "l", "l", "o">>),
     Some(<<"H", "E", "L", "L", "O">>), Some(<<"\t", "A">>), Some(<<"b">>),
     Some(<<"_">>), Some(<<"%">>)}

UserIdFilters == {None, Some(0), Some(1)}

NextSearch ==
    \/ \E w \in Workers : close(w)
    \/ \E w \in Workers, payload \in PageUserPayloads :
          room(0, 1) /\ create_user(w, payload)
    \/ \E w \in Workers : create_user_commit(w)
    \/ \E w \in Workers : create_user_refresh(w)
    \/ \E w \in Workers, payload \in SearchNotePayloads :
          note_id_seq < MaxNotes /\ create_note(w, payload)
    \/ \E w \in Workers : create_note_commit(w)
    \/ \E w \in Workers : create_note_refresh(w)
    \/ \E w \in Workers, q \in QInputs, user_id \in UserIdFilters :
          list_notes(w, q, user_id, None, None)
    \/ \E w \in Workers : list_notes_items(w)

SpecSearch == Init /\ [][NextSearch]_vars

\* ------------------------------------------------ users and their notes

OwnerPayloads ==
    {[email |-> Text(<<"\t", "a", "@", "b">>), hashed_password |-> Absent],
     [email |-> Text(<<"a", "@", "b">>), hashed_password |-> Text(<<"p">>)],
     [email |-> Text(<<"c", "@", "d">>), hashed_password |-> Absent]}

OwnedNotePayloads ==
    {Field(Text(<<"a">>), Absent, Present(Some(1))),
     Field(Text(<<"a">>), Absent, Present(Some(2)))}

OwnerUpdates == {Field(Absent, Absent, Present(Some(2)))}

OwnerIdInputs == 1..MaxOwners

NoteIds == 1..MaxNotes

NextUsers ==
    \/ \E w \in Workers : close(w)
    \/ \E w \in Workers, payload \in OwnerPayloads :
          user_id_seq < MaxOwners /\ create_user(w, payload)
    \/ \E w \in Workers : create_user_wait(w)
    \/ \E w \in Workers : create_user_commit(w)
    \/ \E w \in Workers : create_user_refresh(w)
    \/ \E w \in Workers : list_users(w)
    \/ \E w \in Workers, user_id \in OwnerIdInputs : delete_user(w, user_id)
    \/ \E w \in Workers, note_id \in NoteIds : get_note(w, note_id)
    \/ \E w \in Workers, payload \in OwnedNotePayloads :
          note_id_seq < MaxNotes /\ create_note(w, payload)
    \/ \E w \in Workers : create_note_commit(w)
    \/ \E w \in Workers : create_note_refresh(w)
    \/ \E w \in Workers, note_id \in NoteIds, payload \in OwnerUpdates :
          update_note(w, note_id, payload)
    \/ \E w \in Workers : update_note_commit(w)
    \/ \E w \in Workers : update_note_refresh(w)

SpecUsers == Init /\ [][NextUsers]_vars

\* ----------------------------------------------------- the seed script

SeedUserPayloads ==
    {[email |-> Text(DemoEmail), hashed_password |-> Absent],
     [email |-> Text(<<"a", "@", "b">>), hashed_password |-> Absent]}

SeedNotePayloads == {Field(Text(<<"a">>), Absent, Absent)}

\* no run of the seed script is under way
seed_over == \A v \in Workers : request[v].op = "seed" => request[v].pc = "done"

\* the store has room for k more notes within the bounds
seed_room(k) ==
    /\ Cardinality(DOMAIN notes) + Cardinality(in_flight) + to_come + k <= SeedMaxNotes
    /\ note_id_seq + to_come + k <= SeedMaxNotes + 1

\* the seed script is run again and again, one run after the other, while the
\* service answers its requests
NextSeed ==
    \/ \E w \in Workers : close(w)
    \/ \E w \in Workers, payload \in SeedUserPayloads :
          user_id_seq < MaxOwners /\ create_user(w, payload)
    \/ \E w \in Workers : create_user_wait(w)
    \/ \E w \in Workers : create_user_commit(w)
    \/ \E w \in Workers : create_user_refresh(w)
    \/ \E w \in Workers, payload \in SeedNotePayloads :
          seed_room(1) /\ create_note(w, payload)
    \/ \E w \in Workers : create_note_commit(w)
    \/ \E w \in Workers : create_note_refresh(w)
    \/ \E w \in Workers, note_id \in NoteIds : delete_note(w, note_id)
    \/ \E w \in Workers : delete_note_commit(w)
    \/ \E w \in Workers : seed_over /\ seed(w)
    \/ \E w \in Workers : user_id_seq < MaxOwners /\ seed_insert_user(w)
    \/ \E w \in Workers : seed_wait_user(w)
    \/ \E w \in Workers : seed_commit_user(w)
    \/ \E w \in Workers : seed_refresh(w)
    \/ \E w \in Workers : seed_count(w)
    \/ \E w \in Workers : seed_room(2) /\ seed_insert_notes(w)
    \/ \E w \in Workers : seed_insert_docker(w)
    \/ \E w \in Workers : seed_commit_notes(w)

SpecSeed == Init /\ [][NextSeed]_vars

\* ------------------------------------------------------------ the titles

\* a text of n characters c
Repeat(c, n) == [i \in 1..n |-> c]

TitlePayloads ==
    {Field(Text(<<"\t", "B", "U+00A0">>), Text(<<"x">>), Absent),
     Field(Text(Repeat("a", TitleMaxLen)), Absent, Absent),
     Field(Text(<<"\n">> \o Repeat("a", TitleMaxLen) \o <<"\n">>), Absent, Absent),
     Field(Text(Repeat("a", TitleMaxLen + 1)), Absent, Absent),
     Field(Text(<<"U+2003">> \o Repeat("a", TitleMaxLen + 1)), Text(<<"x">>), Absent),
     Field(Text(<< >>), Absent, Absent),
     Field(Text(<<"\t">>), Absent, Absent),
     Field(Text(<<"U+00A0", " ">>), Text(<<"x">>), Absent),
     Field(Present(None), Absent, Absent),
     Field(Absent, Text(<<"x">>), Absent)}

TitleUpdates ==
    {Field(Absent, Text(<<"y">>), Absent),
     Field(Text(<<"\t", "B", " ">>), Absent, Absent),
     Field(Text(Repeat("a", TitleMaxLen) \o <<"\r">>), Absent, Absent),
     Field(Text(Repeat("a", TitleMaxLen + 1)), Absent, Absent),
     Field(Text(<<"\t">>), Text(<<"y">>), Absent)}

NextTitle ==
    \/ \E w \in Workers : close(w)
    \/ \E w \in Workers, payload \in TitlePayloads :
          note_id_seq < MaxNotes /\ create_note(w, payload)
    \/ \E w \in Workers : create_note_commit(w)
    \/ \E w \in Workers : create_note_refresh(w)
    \/ \E w \in Workers, note_id \in NoteIds, payload \in TitleUpdates :
          update_note(w, note_id, payload)
    \/ \E w \in Workers : update_note_commit(w)
    \/ \E w \in Workers : update_note_refresh(w)

SpecTitle == Init /\ [][NextTitle]_vars

\* ------------------------------------------ the router next to the service

RouterUserPayloads == {[email |-> Text(<<"a", "@", "b">>), hashed_password |-> Absent]}

\* what the router is sent to create a note: a title and a body that carry
\* whitespace, no user_id, a title of whitespace alone
RouterNotePayloads ==
    {Field(Text(<<"\t", "B", " ">>), Text(<<"x", "\n">>), Present(Some(1))),
     Field(Text(<<"a">>), Absent, Absent),
     Field(Text(<<"\t">>), Absent, Present(Some(1)))}

\* a note without an owner, which only the service creates
UnownedNotePayloads == {Field(Text(<<"a">>), Text(<<"x">>), Absent)}

\* the update the service is sent: a body
PutUpdates == {Field(Absent, Text(<<"y", "\n">>), Absent)}

\* the updates the router is sent: a body, a title with a user_id (which it
\* ignores), a title that is empty
PatchUpdates ==
    {Field(Absent, Text(<<"y", "\n">>), Absent),
     Field(Text(<<"\t", "C">>), Absent, Present(Some(NoUser))),
     Field(Text(<< >>), Text(<<"y">>), Absent)}

\* the one note the service is asked to update and to delete
PutIdInputs == {1}

\* an application that includes the router serves its POST and PATCH next to
\* the requests of the service, over the same tables
NextRouter ==
    \/ \E w \in Workers : close(w)
    \/ \E w \in Workers, payload \in RouterUserPayloads :
          room(0, 1) /\ create_user(w, payload)
    \/ \E w \in Workers : create_user_commit(w)
    \/ \E w \in Workers : create_user_refresh(w)
    \/ \E w \in Workers, payload \in UnownedNotePayloads :
          note_id_seq < MaxNotes /\ create_note(w, payload)
    \/ \E w \in Workers : create_note_commit(w)
    \/ \E w \in Workers : create_note_refresh(w)
    \/ \E w \in Workers, payload \in RouterNotePayloads :
          note_id_seq < MaxNotes /\ router_create_note(w, payload)
    \/ \E w \in Workers : router_create_note_commit(w)
    \/ \E w \in Workers : router_create_note_refresh(w)
    \/ \E w \in Workers, note_id \in PutIdInputs, payload \in PutUpdates :
          update_note(w, note_id, payload)
    \/ \E w \in Workers : update_note_commit(w)
    \/ \E w \in Workers : update_note_refresh(w)
    \/ \E w \in Workers, note_id \in UpdateIdInputs, payload \in PatchUpdates :
          router_update_note(w, note_id, payload)
    \/ \E w \in Workers : router_update_note_commit(w)
    \/ \E w \in Workers : router_update_note_refresh(w)
    \/ \E w \in Workers, note_id \in PutIdInputs : delete_note(w, note_id)
    \/ \E w \in Workers : delete_note_commit(w)

SpecRouter == Init /\ [][NextRouter]_vars
\* ----------------------------------------------------------------- claims

\* worker w has answered 201 to a create_note
created(w) ==
    /\ request[w].op = "create_note"
    /\ request[w].pc = "done"
    /\ response[w].status = 201

\* C1 as stated: once create_note has stored a note (its INSERT is
\* committed), get_note on its id yields the title and body exactly as they
\* were supplied, with id and created_at non-null.
C1_AsSupplied ==
    [][\A w \in Workers :
        create_note_commit(w) =>
            \A id \in {request[w].id}, payload \in {request[w].payload} :
                LET got == (get_note_response(id))'
                IN  /\ got.status = 200
                    /\ got.body.title = field_value(payload.title)
                    /\ got.body.body = field_value(payload.body)
                    /\ got.body.id = id
                    /\ ~IsNone(got.body.created_at)]_vars

\* C1 amended: once create_note has stored a note (its INSERT is committed),
\* get_note on its id yields the supplied title and body with surrounding
\* whitespace stripped (a body that was not supplied is null), with id and
\* created_at non-null; and the id create_note answers with is the id of that
\* note.
C1_Stripped ==
    /\ [][\A w \in Workers :
            create_note_commit(w) =>
                \A id \in {request[w].id}, payload \in {request[w].payload} :
                    LET got == (get_note_response(id))'
                        title == field_value(payload.title)
                        body == field_value(payload.body)
                    IN  /\ got.status = 200
                        /\ got.body.title = Some(strip(title[1]))
                        /\ got.body.body =
                              (IF IsNone(body) THEN None ELSE Some(strip(body[1])))
                        /\ got.body.id = id
                        /\ id >= IdMin
                        /\ ~IsNone(got.body.created_at)
                        /\ request'[w].id = id]_vars
    /\ [](\A w \in Workers : created(w) => response[w].body.id = request[w].id)

\* a note was created from a title and a body that both carry whitespace, and
\* get_note on the id that was answered finds them stripped
C1_Witness ==
    \E w \in Workers :
        /\ created(w)
        /\ LET title == field_value(request[w].payload.title)
               body == field_value(request[w].payload.body)
               got == get_note_response(response[w].body.id)
           IN  /\ ~IsNone(body)
               /\ strip(title[1]) # title[1]
               /\ strip(body[1]) # body[1]
               /\ got.status = 200
               /\ got.body.title = Some(strip(title[1]))
               /\ got.body.body = Some(strip(body[1]))

\* the INSERT of the note of id is not committed yet
pending(id) == \E v \in Workers : id \in DOMAIN uncommitted_notes(v)

\* the note of id was stored and is no longer: the id was drawn, no INSERT of
\* it is under way, and it is not in the table
gone(id) == id <= note_id_seq /\ id \notin DOMAIN notes /\ ~pending(id)

\* C2: once delete_note(id) has answered 204, get_note(id) answers 404; a
\* note that is gone never comes back (an id is in the table only between the
\* commit of its one INSERT and its delete), so every get_note and
\* delete_note of it that starts later answers 404; and a delete_note of an
\* id that is not in the table answers 404 and leaves the table as it was.
C2_DeleteIsFinal ==
    /\ [](\A w \in Workers :
            (request[w].op = "delete_note" /\ response[w].status = 204) =>
                /\ gone(request[w].note_id)
                /\ get_note_response(request[w].note_id) = NotFound)
    /\ [][\A id \in 1..MaxNoteIds : gone(id) => gone(id)']_vars
    /\ [](\A id \in DOMAIN notes : id <= note_id_seq /\ ~pending(id))
    /\ [][\A w \in Workers, id \in NoteIdInputs :
            (delete_note(w, id) /\ id \notin DOMAIN notes) =>
                (/\ response'[w] = NotFound
                 /\ request'[w].pc = "done"
                 /\ notes' = notes)]_vars

\* a note was deleted while another one stayed, and get_note no longer finds it
C2_Witness ==
    \E w \in Workers :
        /\ request[w].op = "delete_note"
        /\ response[w].status = 204
        /\ get_note_response(request[w].note_id) = NotFound
        /\ DOMAIN notes # {}


\* worker w has answered 200 to an update_note
updated(w) ==
    /\ request[w].op = "update_note"
    /\ request[w].pc = "done"
    /\ response[w].status = 200

\* worker w has answered 200 to an update_note of the router
patched(w) ==
    /\ request[w].op = "router_update_note"
    /\ request[w].pc = "done"
    /\ response[w].status = 200

\* C3: update_note, of the service (PUT) and of the router (PATCH), writes at
\* its commit alone, and there it leaves every field whose key is absent from
\* the payload as it is stored (title and user_id under a payload of body
\* alone; the router leaves user_id under every payload), keeps created_at,
\* changes no other note, adds and removes no note, and changes no user.
C3_AbsentFieldsKept ==
    /\ [][\A w \in Workers :
            (update_note_commit(w) \/ router_update_note_commit(w)) =>
                LET note_id == request[w].note_id
                    payload == request[w].payload
                IN  /\ DOMAIN notes' = DOMAIN notes
                    /\ \A other \in DOMAIN notes \ {note_id} :
                          notes'[other] = notes[other]
                    /\ users' = users
                    /\ note_id \in DOMAIN notes =>
                          /\ payload.title = Absent =>
                                notes'[note_id].title = notes[note_id].title
                          /\ payload.body = Absent =>
                                notes'[note_id].body = notes[note_id].body
                          /\ (\/ payload.user_id = Absent
                              \/ request[w].op = "router_update_note") =>
                                notes'[note_id].user_id = notes[note_id].user_id
                          /\ notes'[note_id].created_at = notes[note_id].created_at]_vars
    /\ [][\A w \in Workers :
            (/\ request'[w] # request[w]
             /\ request'[w].op \in {"update_note", "router_update_note"}
             /\ ~update_note_commit(w)
             /\ ~router_update_note_commit(w)) =>
                UNCHANGED store]_vars

\* an update of body alone went through on one note by PUT and on another
\* note by PATCH: each note shows its new body (stripped by the service, as
\* sent by the router) under the title and the owner it had
C3_Witness ==
    \E w, v \in Workers :
        /\ updated(w)
        /\ patched(v)
        /\ request[w].note_id # request[v].note_id
        /\ \A x \in {w, v} :
              /\ request[x].payload.title = Absent
              /\ request[x].payload.user_id = Absent
              /\ request[x].payload.body # Absent
              /\ ~IsNone(field_value(request[x].payload.body))
              /\ request[x].note_id \in DOMAIN notes
              /\ notes[request[x].note_id].title = request[x].n.title
              /\ notes[request[x].note_id].user_id = request[x].n.user_id
              /\ notes[request[x].note_id].body # request[x].n.body
              /\ notes[request[x].note_id].body = response[x].body.body
        /\ notes[request[w].note_id].body = strip_text(request[w].payload.body[1])
        /\ notes[request[v].note_id].body = request[v].payload.body[1]
        /\ Cardinality(DOMAIN notes) = 2

\* the commit of worker w goes through: the handler goes on to its refresh
commits(w) == update_note_commit(w) /\ request'[w].pc = "refresh"

\* C4 as stated: when the commit of an update_note goes through, every field
\* whose key is present in the payload, a null body or user_id included, has
\* overwritten the stored value, and a field whose key is absent keeps it.
C4_PresentOverwrites ==
    [][\A w \in Workers :
        commits(w) =>
            LET note_id == request[w].note_id
                payload == request[w].payload
            IN  note_id \in DOMAIN notes =>
                    /\ notes'[note_id].body =
                          (IF payload.body = Absent THEN notes[note_id].body
                           ELSE strip_text(payload.body[1]))
                    /\ notes'[note_id].user_id =
                          (IF payload.user_id = Absent THEN notes[note_id].user_id
                           ELSE payload.user_id[1])]_vars

\* C5 as stated: when the commit of an update_note goes through, an update
\* with an empty payload or with the stored values included, updated_at is the
\* time of the update, strictly later than before once the clock has moved on.
C5_UpdatedAtRefreshed ==
    [][\A w \in Workers :
        commits(w) =>
            LET note_id == request[w].note_id
            IN  note_id \in DOMAIN notes =>
                    /\ notes'[note_id].updated_at = Some(request[w].at)
                    /\ notes[note_id].updated_at[1] < request[w].at =>
                          notes'[note_id].updated_at[1] > notes[note_id].updated_at[1]]_vars

\* C14: the INSERT of create_note draws an id that no note has or had, and no
\* two INSERTs under way hold the same id or the id of a stored note; its
\* commit stores the note under that id with updated_at equal to created_at
\* and leaves the stored notes as they were; and no step changes the
\* created_at of a note that stays under its id.
C14_IdAndCreatedAtKept ==
    /\ [][\A w \in Workers :
            (/\ request'[w] # request[w]
             /\ request'[w].op = "create_note"
             /\ request'[w].pc = "commit") =>
                /\ request'[w].id > note_id_seq
                /\ note_id_seq' >= request'[w].id
                /\ notes' = notes]_vars
    /\ [][\A w \in Workers :
            create_note_commit(w) =>
                \A id \in {request[w].id} :
                    /\ id \notin DOMAIN notes
                    /\ id <= note_id_seq
                    /\ DOMAIN notes' = DOMAIN notes \cup {id}
                    /\ \A other \in DOMAIN notes : notes'[other] = notes[other]
                    /\ ~IsNone(notes'[id].created_at)
                    /\ notes'[id].updated_at = notes'[id].created_at]_vars
    /\ [][\A id \in DOMAIN notes \cap DOMAIN notes' :
            notes'[id].created_at = notes[id].created_at]_vars
    /\ [](/\ \A id \in DOMAIN notes : id <= note_id_seq /\ ~pending(id)
          /\ \A v, w \in Workers :
                v # w => DOMAIN uncommitted_notes(v) \cap DOMAIN uncommitted_notes(w) = {})

\* a note was deleted while another note, updated after the clock moved on,
\* still shows the time it was created at
C14_Witness ==
    \E w \in Workers :
        /\ request[w].op = "delete_note"
        /\ response[w].status = 204
        /\ \E id \in DOMAIN notes :
              /\ notes[id].created_at = Some(0)
              /\ notes[id].updated_at = Some(1)

\* worker w has answered 200 to a list_notes
listed(w) ==
    /\ request[w].op = "list_notes"
    /\ request[w].pc = "done"
    /\ response[w].status = 200

Min(a, b) == IF a < b THEN a ELSE b

Max(a, b) == IF a < b THEN b ELSE a

\* C6 as stated: the answer of a successful list_notes carries as total the
\* number of notes that match its filters and as items the window of at most
\* limit of them from position offset on, so that it carries
\* min(limit, max(0, total - offset)) items.
C6_PageOfMatches ==
    \A w \in Workers :
        listed(w) =>
            LET answered == response[w].body
            IN  Len(answered.items) =
                    Min(answered.limit, Max(0, answered.total - answered.offset))

\* C9: no step a worker takes in list_notes (the validation that answers 422,
\* the count, the page query and the answer) changes a user, a note or any of
\* their fields, or draws an id.
C9_ListReadOnly ==
    [][\A w \in Workers :
        (request'[w] # request[w] /\ request'[w].op = "list_notes") =>
            UNCHANGED store]_vars

\* a filtered listing returned a note at a time later than the note's last write
C9_Witness ==
    \E w \in Workers :
        /\ listed(w)
        /\ ~IsNone(request[w].q)
        /\ Len(response[w].body.items) >= 1
        /\ \E id \in DOMAIN notes : notes[id].updated_at # Some(now)

\* q occurs in text, letter case aside
contains(text, q) ==
    \E i \in 1..(Len(text) - Len(q) + 1) :
        SubSeq(lower(text), i, i + Len(q) - 1) = lower(q)

\* C7 as stated, for a q that carries no surrounding whitespace: the page
\* query of list_notes with a query q returns exactly the notes whose title or
\* body contains q as a substring, letter case aside, and with user_id only
\* those of that owner.
C7_SubstringSearch ==
    [][\A w \in Workers :
        (/\ list_notes_items(w)
         /\ ~IsNone(request[w].q)
         /\ strip(request[w].q[1]) = request[w].q[1]) =>
            LET items == response'[w].body.items
                q == request[w].q[1]
            IN  {items[i].id : i \in 1..Len(items)} =
                    {id \in DOMAIN notes :
                        /\ \/ ~IsNone(notes[id].title) /\ contains(notes[id].title[1], q)
                           \/ ~IsNone(notes[id].body) /\ contains(notes[id].body[1], q)
                        /\ ~IsNone(request[w].user_id) =>
                              notes[id].user_id = request[w].user_id}]_vars

\* C8 as stated: the page query of an unfiltered list_notes from offset 0
\* returns its items by created_at descending, null last, and its first item
\* is the note that was created most recently (the one with the greatest id).
C8_NewestFirst ==
    [][\A w \in Workers :
        (/\ list_notes_items(w)
         /\ IsNone(request[w].q) /\ IsNone(request[w].user_id)
         /\ request[w].offset = 0
         /\ DOMAIN notes # {}) =>
            LET items == response'[w].body.items
            IN  /\ \A i, j \in 1..Len(items) :
                      i < j => created_at_desc_nullslast(items[i].id, items[j].id)
                /\ \A id \in DOMAIN notes : id <= items[1].id]_vars

\* C10 as stated: create_note with a valid payload whose user_id names no
\* user answers 409 with the structured error body and stores no note.
C10_ConflictOnMissingUser ==
    [][\A w \in Workers, payload \in SpecNotePayloads :
        (/\ create_note(w, payload)
         /\ NoteIn_errors(payload) = {}
         /\ ~fk_ok(NoteIn(payload).user_id)) =>
            (/\ response'[w].status = 409
             /\ "error" \in DOMAIN response'[w].body
             /\ notes' = notes)]_vars

\* C11 as stated: create_user with a valid payload whose email is that of a
\* stored user answers 409 and inserts no row, and in every state no two users
\* share an email.
C11_ConflictOnDuplicateEmail ==
    /\ [](\A u, v \in DOMAIN users :
            (u # v /\ ~IsNone(users[u].email)) => users[u].email # users[v].email)
    /\ [][\A w \in Workers, payload \in OwnerPayloads :
            (/\ create_user(w, payload)
             /\ UserIn_errors(payload) = {}
             /\ ~email_free(UserIn(payload).email)) =>
                (/\ response'[w].status = 409
                 /\ users' = users)]_vars

\* C12: deleting a user deletes the notes it owns, after which get_note on
\* their ids answers 404, and leaves every other note as it was; and in every
\* state the user_id of a note is null or the id of a stored user.
C12_UserDeleteCascades ==
    /\ [](\A n \in DOMAIN notes :
            IsNone(notes[n].user_id) \/ notes[n].user_id[1] \in DOMAIN users)
    /\ [][\A w \in Workers, user_id \in OwnerIdInputs :
            delete_user(w, user_id) =>
                /\ user_id \notin DOMAIN users'
                /\ \A n \in DOMAIN notes :
                      IF notes[n].user_id = Some(user_id)
                      THEN (get_note_response(n))' = NotFound
                      ELSE n \in DOMAIN notes' /\ notes'[n] = notes[n]
                /\ DOMAIN notes' \subseteq DOMAIN notes]_vars

\* a user that owned a note was deleted: the note is gone, while the note of
\* another user stays
C12_Witness ==
    \E w \in Workers :
        /\ request[w].op = "delete_user"
        /\ request[w].user_id \notin DOMAIN users
        /\ request[w].notes # {}
        /\ \A n \in request[w].notes : get_note_response(n) = NotFound
        /\ \E n \in DOMAIN notes :
              /\ ~IsNone(notes[n].user_id)
              /\ notes[n].user_id[1] \in DOMAIN users

\* the users whose email is that of the seed script
demo_users(table) == {u \in DOMAIN table : table[u].email = Some(DemoEmail)}

\* the notes that carry a title
titled(title) == {n \in DOMAIN notes : notes[n].title = Some(title)}

\* C15: when the runs of the seed script follow one another, there is never
\* more than one user with email demo@local, and exactly one (the user of the
\* run) once a run is past its lookup or insert of the user; a run leaves
\* every user and every note it finds as they are; it inserts no user when the
\* demo user is stored; it goes on to insert its notes only when it counted no
\* note, and the notes are two and owned by the demo user; its lookup and its
\* count change nothing, so a run that finds the user and a note changes
\* nothing; and its two notes are never stored twice.
C15_SeedIdempotent ==
    /\ [](Cardinality(demo_users(users)) <= 1)
    /\ [](\A w \in Workers :
            (/\ request[w].op = "seed"
             /\ \/ request[w].pc \in {"refresh", "count", "insert_notes",
                                    "insert_docker", "commit_notes"}
                \/ request[w].pc = "done" /\ response[w] = exit(0)) =>
                demo_users(users) = {request[w].user})
    /\ [][\A w \in Workers :
            (request'[w] # request[w] /\ request'[w].op = "seed") =>
                /\ \A u \in DOMAIN users : u \in DOMAIN users' /\ users'[u] = users[u]
                /\ \A n \in DOMAIN notes : n \in DOMAIN notes' /\ notes'[n] = notes[n]
                /\ demo_users(users) # {} => users' = users
                /\ request[w].pc \in {"idle", "wait_user", "refresh", "count"} =>
                      UNCHANGED store
                /\ users' # users => request[w].pc = "commit_user"
                /\ (request[w].pc = "count" /\ request'[w].pc = "insert_notes") =>
                      DOMAIN notes = {}
                /\ (request[w].pc = "count" /\ DOMAIN notes # {}) =>
                      (request'[w].pc = "done" /\ response'[w] = exit(0))
                /\ notes' # notes =>
                      /\ request[w].pc = "commit_notes"
                      /\ Cardinality(DOMAIN notes' \ DOMAIN notes) = 2
                      /\ \A n \in DOMAIN notes' \ DOMAIN notes :
                            notes'[n].user_id = Some(request[w].user)]_vars
    /\ [](/\ Cardinality(titled(<<"H", "e", "l", "l", "o">>)) <= 1
          /\ Cardinality(titled(<<"D", "o", "c", "k", "e", "r">>)) <= 1)

\* a run of the seed script ended well against a store that held the demo
\* user, another user and a note that is not the demo user's: the run added
\* nothing
C15_Witness ==
    \E w \in Workers :
        /\ request[w].op = "seed"
        /\ request[w].pc = "done"
        /\ response[w] = exit(0)
        /\ Cardinality(demo_users(users)) = 1
        /\ Cardinality(DOMAIN users) >= 2
        /\ DOMAIN notes # {}
        /\ \A n \in DOMAIN notes : IsNone(notes[n].user_id)

\* the title of a payload is missing, null, empty, empty once trimmed, or
\* longer than 200 characters once trimmed
bad_title(payload) ==
    \/ payload.title = Absent
    \/ IsNone(payload.title[1])
    \/ Len(strip(payload.title[1][1])) = 0
    \/ Len(strip(payload.title[1][1])) > 200

\* C13: create_note with a title that is missing, empty, empty once trimmed,
\* or longer than 200 characters once trimmed answers 422 ValidationError and
\* stores no note; the title of every stored note is trimmed and 1 to 200
\* characters long.
C13_TitleValidated ==
    /\ [][\A w \in Workers, payload \in TitlePayloads :
            (create_note(w, payload) /\ bad_title(payload)) =>
                (/\ request'[w].pc = "done"
                 /\ response'[w].status = 422
                 /\ response'[w].body.error = "ValidationError"
                 /\ "title" \in response'[w].body.details
                 /\ UNCHANGED store)]_vars
    /\ [](\A n \in DOMAIN notes :
            /\ ~IsNone(notes[n].title)
            /\ strip(notes[n].title[1]) = notes[n].title[1]
            /\ Len(notes[n].title[1]) \in 1..200)

\* a title of 201 characters behind an em space was refused while a note with a
\* title of 200 characters, supplied between two line feeds, is stored
C13_Witness ==
    \E w \in Workers :
        /\ request[w].op = "create_note"
        /\ response[w].status = 422
        /\ request[w].payload.title # Absent
        /\ ~IsNone(request[w].payload.title[1])
        /\ Len(request[w].payload.title[1][1]) = 202
        /\ Len(strip(request[w].payload.title[1][1])) = 201
        /\ \E n \in DOMAIN notes : Len(notes[n].title[1]) = 200
====
